---- MODULE Spec2Model ----
(***************************************************************************)
(* The development-container session of scripts/devcmd: shell_command,     *)
(* the descriptor parser and the working-directory mapper it calls, and    *)
(* the three paths it dispatches to (connect_to_running_container,         *)
(* start_existing_container, create_new_container), run against a          *)
(* container runtime that holds one container for the session's identity.  *)
(*                                                                         *)
(* One action is one interaction with the world outside the Python         *)
(* process: reading dev.env, a docker invocation or a socket probe.  The   *)
(* Python statements between two interactions belong to the action that    *)
(* follows them.                                                           *)
(*                                                                         *)
(* A Python str is the sequence of its characters.  The lines of dev.env   *)
(* are written down as sequences of words and punctuation marks; Str gives *)
(* the text the program reads.                                             *)
(***************************************************************************)
EXTENDS Integers, Sequences, FiniteSets, TLC

VARIABLES
    cstate,     \* runtime: "Absent", "Stopped" or "Running" for the identity
    bindings,   \* runtime: host ports of the container's HostConfig.PortBindings
    bashrc,     \* container: number of sourcing lines in /home/me/.bashrc
    nvim,       \* container: /home/me/.config/nvim/init.lua symlink present
    busy,       \* host: ports bound by something that is not the container
    file,       \* host: DEV_DIR/dev.env, present or not, and its lines
    cwd,        \* host: os.getcwd() of the sessions
    links,      \* host: the symbolic link that matters, or none
    initRuns,   \* container: runs of the init script that completed in it
    config,     \* per session: result of parse_dev_env_file
    work_dir,   \* per session: result of determine_working_directory
    container_name, \* per session: result of get_container_name
    pc,         \* per session: position in shell_command
    obs,        \* per session: answers of container_running / container_exists
    path,       \* per session: branch of shell_command taken
    calls,      \* per session: docker invocations issued and their outcomes
    conflicts,  \* per session: port_conflicts of start_existing_container
    publish,    \* per session: --publish arguments collected so far
    decided,    \* per session: decisions of create_new_container's port loop
    idx,        \* per session: loop position in config['ports'] / port_conflicts
    runCmd,     \* per session: the docker run command issued
    entry,      \* per session: the runtime's state when the session began
    grep,       \* per session: answer of the init script's grep for the line
    exitCode,   \* per session: -1 while running, else the process exit status
    others,     \* runtime: the other development containers that are running
    args,       \* per process: the command line of dev
    containers, \* per process: result of get_running_dev_containers
    targets,    \* per process: the containers stop_command has still to stop
    answer      \* per process: the last line read from the terminal

vars == <<cstate, bindings, bashrc, nvim, busy, file, cwd, links, initRuns,
          config, container_name,
          work_dir, pc, obs, path, calls, conflicts, publish, decided, idx,
          runCmd,
          entry, grep, exitCode, others, args, containers, targets, answer>>

runtimeVars == <<cstate, bindings, bashrc, nvim>>
hostVars == <<busy, file, cwd, links>>
descriptorVars == <<config, work_dir, container_name>>
loopVars == <<conflicts, publish, decided, idx>>
cmdVars == <<others, args, containers, targets, answer>>
sessionVars == <<descriptorVars, loopVars, path, runCmd, grep>>

(***************************************************************************)
(* Bounds.                                                                 *)
(***************************************************************************)
MaxPorts == 2       \* PORT lines of a session's dev.env
MaxLines == 3       \* lines of a dev.env given to the parser alone
MaxInits == 3       \* runs of the init script counted in one container

Sessions == {"s1", "s2"}

HostPorts == {8080, 9000}

SeqsUpTo(S, n) == UNION { [1..k -> S] : k \in 0..n }

(***************************************************************************)
(* Text.                                                                   *)
(***************************************************************************)
Chars ==
    ("/home/me/tools" :> <<"/", "h", "o", "m", "e", "/", "m", "e", "/", "t", "o", "o", "l", "s">>) @@
    ("/opt/devtools" :> <<"/", "o", "p", "t", "/", "d", "e", "v", "t", "o", "o", "l", "s">>) @@
    ("/opt/.dev" :> <<"/", "o", "p", "t", "/", ".", "d", "e", "v">>) @@
    ("/srv/.dev" :> <<"/", "s", "r", "v", "/", ".", "d", "e", "v">>) @@
    (".dev" :> <<".", "d", "e", "v">>) @@
    ("dev-main" :> <<"d", "e", "v", "-", "m", "a", "i", "n">>) @@
    ("dev-" :> <<"d", "e", "v", "-">>) @@
    ("MOUNT" :> <<"M", "O", "U", "N", "T">>) @@
    ("PORT" :> <<"P", "O", "R", "T">>) @@
    ("DEFAULT_WORKDIR" :> <<"D", "E", "F", "A", "U", "L", "T", "_", "W", "O", "R", "K", "D", "I", "R">>) @@
    ("OPTS" :> <<"O", "P", "T", "S">>) @@
    ("k" :> <<"k">>) @@
    ("v" :> <<"v">>) @@
    ("ro" :> <<"r", "o">>) @@
    ("tcp" :> <<"t", "c", "p">>) @@
    ("http" :> <<"h", "t", "t", "p">>) @@
    ("8080" :> <<"8", "0", "8", "0">>) @@
    ("9000" :> <<"9", "0", "0", "0">>) @@
    ("80" :> <<"8", "0">>) @@
    ("90" :> <<"9", "0">>) @@
    ("/" :> <<"/">>) @@
    ("/home/me" :> <<"/", "h", "o", "m", "e", "/", "m", "e">>) @@
    ("/home/me/dev" :> <<"/", "h", "o", "m", "e", "/", "m", "e", "/", "d", "e", "v">>) @@
    ("/home/me/dev/proj" :> <<"/", "h", "o", "m", "e", "/", "m", "e", "/", "d", "e", "v", "/", "p", "r", "o", "j">>) @@
    ("/home/me/dev2" :> <<"/", "h", "o", "m", "e", "/", "m", "e", "/", "d", "e", "v", "2">>) @@
    ("/home/me/devx" :> <<"/", "h", "o", "m", "e", "/", "m", "e", "/", "d", "e", "v", "x">>) @@
    ("/home/me/.dev" :> <<"/", "h", "o", "m", "e", "/", "m", "e", "/", ".", "d", "e", "v">>) @@
    ("/data" :> <<"/", "d", "a", "t", "a">>) @@
    ("/missing" :> <<"/", "m", "i", "s", "s", "i", "n", "g">>) @@
    ("/srv" :> <<"/", "s", "r", "v">>) @@
    ("/ws" :> <<"/", "w", "s">>) @@
    ("/ws/proj" :> <<"/", "w", "s", "/", "p", "r", "o", "j">>) @@
    ("/w2" :> <<"/", "w", "2">>) @@
    ("/proj" :> <<"/", "p", "r", "o", "j">>) @@
    ("/host" :> <<"/", "h", "o", "s", "t">>) @@
    ("~/dev" :> <<"~", "/", "d", "e", "v">>) @@
    ("$HOME/dev" :> <<"$", "H", "O", "M", "E", "/", "d", "e", "v">>) @@
    (" " :> <<" ">>) @@
    ("#" :> <<"#">>) @@
    ("=" :> <<"=">>) @@
    (":" :> <<":">>)

RECURSIVE Str(_)
Str(tokens) ==
    IF tokens = <<>> THEN <<>> ELSE Chars[Head(tokens)] \o Str(Tail(tokens))

\* str.strip(), str.startswith(), `c in s`
RECURSIVE lstrip(_)
lstrip(s) == IF s # <<>> /\ Head(s) = " " THEN lstrip(Tail(s)) ELSE s

RECURSIVE rstrip(_)
rstrip(s) ==
    IF s # <<>> /\ s[Len(s)] = " " THEN rstrip(SubSeq(s, 1, Len(s) - 1)) ELSE s

strip(s) == rstrip(lstrip(s))

contains(s, c) == \E i \in 1..Len(s) : s[i] = c

find(s, c) ==
    IF contains(s, c)
    THEN CHOOSE i \in 1..Len(s) : s[i] = c /\ \A j \in 1..(i - 1) : s[j] # c
    ELSE 0

startswith(s, prefix) ==
    Len(prefix) <= Len(s) /\ SubSeq(s, 1, Len(prefix)) = prefix

\* s.split(c): the fields between the occurrences of c
RECURSIVE split(_, _)
split(s, c) ==
    IF ~contains(s, c) THEN << s >>
    ELSE << SubSeq(s, 1, find(s, c) - 1) >>
            \o split(SubSeq(s, find(s, c) + 1, Len(s)), c)

\* Mutant: a split at the last occurrence of c.
split_once_at_last(s, c) ==
    LET k == CHOOSE i \in 1..Len(s) :
                 s[i] = c /\ \A j \in (i + 1)..Len(s) : s[j] # c
    IN << SubSeq(s, 1, k - 1), SubSeq(s, k + 1, Len(s)) >>

\* s.split(c, 1) for an s that contains c: what precedes the first c, and
\* what follows it.
split_once(s, c) ==
    << SubSeq(s, 1, find(s, c) - 1), SubSeq(s, find(s, c) + 1, Len(s)) >>

\* int(s): surrounding blanks are ignored; defined on strings of decimal
\* digits, ValueError otherwise.
Digit == ("0" :> 0) @@ ("1" :> 1) @@ ("2" :> 2) @@ ("3" :> 3) @@ ("4" :> 4) @@
         ("5" :> 5) @@ ("6" :> 6) @@ ("7" :> 7) @@ ("8" :> 8) @@ ("9" :> 9)

IsDecimal(s) ==
    /\ strip(s) # <<>>
    /\ \A i \in 1..Len(strip(s)) : strip(s)[i] \in DOMAIN Digit

RECURSIVE DecimalValue(_)
DecimalValue(d) ==
    IF d = <<>> THEN 0
    ELSE 10 * DecimalValue(SubSeq(d, 1, Len(d) - 1)) + Digit[d[Len(d)]]

IntOf(s) == DecimalValue(strip(s))

(***************************************************************************)
(* os.path on the host.                                                    *)
(***************************************************************************)
HOME_DIR == Str(<<"/home/me">>)
DEV_DIR == Str(<<"/home/me/.dev">>)

\* The components of a path after normalisation of repeated and trailing
\* separators and of "." components.
components(p) ==
    SelectSeq(split(p, "/"), LAMBDA c : c # <<>> /\ c # <<".">>)

RECURSIVE join_components(_)
join_components(cs) ==
    IF Len(cs) = 1 THEN cs[1]
    ELSE cs[1] \o <<"/">> \o join_components(Tail(cs))

Min(a, b) == IF a <= b THEN a ELSE b

\* os.path.relpath(p, start) for absolute p and start
relpath(p, start) ==
    LET pl == components(p)
        sl == components(start)
        common == { k \in 0..Min(Len(pl), Len(sl)) :
                       \A j \in 1..k : pl[j] = sl[j] }
        i == CHOOSE k \in common : \A m \in common : m <= k
        rel == [j \in 1..(Len(sl) - i) |-> <<".", ".">>]
                  \o SubSeq(pl, i + 1, Len(pl))
    IN IF rel = <<>> THEN <<".">> ELSE join_components(rel)

\* os.path.join(a, b)
os_path_join(a, b) ==
    IF b # <<>> /\ Head(b) = "/" THEN b
    ELSE IF a = <<>> \/ a[Len(a)] = "/" THEN a \o b
    ELSE a \o <<"/">> \o b

\* os.path.expanduser: a leading "~" (alone or followed by "/") becomes the
\* home directory; "~name" of an unknown user is left as it is.
expanduser(p) ==
    IF p # <<>> /\ Head(p) = "~" /\ (Len(p) = 1 \/ p[2] = "/")
    THEN IF Len(p) = 1 THEN HOME_DIR ELSE HOME_DIR \o Tail(p)
    ELSE p

\* os.path.expandvars with HOME the only variable of the environment that
\* the descriptors name: a leading "$HOME" is replaced.
expandvars(p) ==
    IF startswith(p, <<"$", "H", "O", "M", "E">>)
          /\ (Len(p) = 5 \/ p[6] = "/")
    THEN HOME_DIR \o SubSeq(p, 6, Len(p))
    ELSE p

\* Directories of the host
ExistingPaths ==
    { Str(<<w>>) : w \in {"/", "/home/me", "/home/me/dev", "/home/me/dev/proj",
                          "/home/me/dev2", "/home/me/devx", "/home/me/.dev",
                          "/data", "/srv"} }

\* Mutant: every path exists.
os_path_exists_always(p) == TRUE

os_path_exists(p) ==
    /\ p # <<>>
    /\ Head(p) = "/"
    /\ \E e \in ExistingPaths : components(e) = components(p)

(***************************************************************************)
(* parse_dev_env_file.                                                     *)
(***************************************************************************)
Mount(h, c, o) == [host_path |-> h, container_path |-> c, options |-> o]

\* The result dictionary before any line is read
EmptyDescriptor ==
    [mounts |-> <<>>, ports |-> <<>>, env_vars |-> <<>>,
     default_workdir |-> Str(<<"/home/me">>)]

\* key, value = [part.strip() for part in line.split('=', 1)]
key_value(line) ==
    << strip(split_once(line, "=")[1]), strip(split_once(line, "=")[2]) >>

\* Mutant: the options field is never read.
mount_of_without_options(parts) == Mount(expanduser(parts[1]), parts[2], <<>>)

\* The mount a MOUNT value with the fields parts describes
mount_of(parts) ==
    Mount(expanduser(parts[1]), parts[2],
          IF Len(parts) > 2 THEN parts[3] ELSE <<>>)

\* result['env_vars'][key] = value on a dict that keeps insertion order
dict_set(d, key, value) ==
    IF \E i \in 1..Len(d) : d[i][1] = key
    THEN [i \in 1..Len(d) |-> IF d[i][1] = key THEN <<key, value>> ELSE d[i]]
    ELSE Append(d, <<key, value>>)

set_default_workdir(result, value) == [result EXCEPT !.default_workdir = value]

\* Mutant: a PORT value already in the list is not added again.
append_port_once(ports, value) ==
    IF \E i \in 1..Len(ports) : ports[i] = value THEN ports
    ELSE Append(ports, value)

\* result['ports'].append(value)
append_port(ports, value) == Append(ports, value)

\* The body of the loop over the lines of the file
parse_line(result, raw) ==
    LET line == strip(raw)
        key == key_value(line)[1]
        value == key_value(line)[2]
        parts == split(value, ":")
    IN IF line = <<>> \/ startswith(line, <<"#">>) THEN result
       ELSE IF ~contains(line, "=") THEN result
       ELSE IF key = Str(<<"MOUNT">>)
            THEN IF contains(value, ":") /\ Len(parts) >= 2
                       /\ os_path_exists(mount_of(parts).host_path)
                 THEN [result EXCEPT !.mounts = Append(@, mount_of(parts))]
                 ELSE result
       ELSE IF key = Str(<<"PORT">>)
            THEN IF contains(value, ":")
                 THEN [result EXCEPT !.ports = append_port(@, value)]
                 ELSE result
       ELSE IF key = Str(<<"DEFAULT_WORKDIR">>)
            THEN set_default_workdir(result, value)
       ELSE [result EXCEPT !.env_vars = dict_set(@, key, value)]

RECURSIVE parse_lines(_, _)
parse_lines(result, lines) ==
    IF lines = <<>> THEN result
    ELSE parse_lines(parse_line(result, Head(lines)), Tail(lines))

\* After the loop: with no mount accepted, the mount of DEV_DIR is added
\* when DEV_DIR exists.
add_default_mount(result) ==
    IF result.mounts = <<>> /\ os_path_exists(DEV_DIR)
    THEN [result EXCEPT !.mounts =
             << Mount(DEV_DIR, Str(<<"/home/me/.dev">>), <<>>) >>]
    ELSE result

\* The text of dev.env: the lines as the program reads them
TextOf(f) == [i \in 1..Len(f.lines) |-> Str(f.lines[i])]

\* Without the file the function returns the initial dictionary at once.
parse_dev_env_file(f) ==
    IF ~f.present THEN EmptyDescriptor
    ELSE add_default_mount(parse_lines(EmptyDescriptor, TextOf(f)))

(***************************************************************************)
(* determine_working_directory.                                            *)
(***************************************************************************)
\* Is current_dir inside this mount, as the loop tests it
inside_mount(current_dir, mount) ==
    startswith(current_dir, expanduser(expandvars(mount.host_path)))

mapped_directory(current_dir, mount) ==
    os_path_join(mount.container_path,
                 relpath(current_dir, expanduser(expandvars(mount.host_path))))

determine_working_directory(current_dir, cfg) ==
    IF \E i \in 1..Len(cfg.mounts) : inside_mount(current_dir, cfg.mounts[i])
    THEN LET first == CHOOSE i \in 1..Len(cfg.mounts) :
                         /\ inside_mount(current_dir, cfg.mounts[i])
                         /\ \A j \in 1..(i - 1) :
                               ~inside_mount(current_dir, cfg.mounts[j])
         IN mapped_directory(current_dir, cfg.mounts[first])
    ELSE cfg.default_workdir

(***************************************************************************)
(* The directory of a session and the container name derived from it.     *)
(***************************************************************************)
\* A symbolic link of the host, or none
NoLink == [from |-> <<>>, to |-> <<>>]
Link(a, b) == [from |-> Str(<<a>>), to |-> Str(<<b>>)]

normpath(p) == <<"/">> \o (IF components(p) = <<>> THEN <<>>
                           ELSE join_components(components(p)))

\* The physical path of a directory: the link, if the path is one, is
\* followed, and a trailing separator is dropped.
realpath(p, link) ==
    IF link # NoLink /\ components(p) = components(link.from) THEN link.to
    ELSE normpath(p)

\* os.getcwd() of a process started in the directory the user names by
\* location: the kernel reports the physical path.
os_getcwd(location, link) == realpath(location, link)

basename(p) == split(p, "/")[Len(split(p, "/"))]

\* Directories that hold scripts/dev.py: the installation and one more
\* copy of the tool.
Checkouts(link) == { realpath(DEV_DIR, link), Str(<<"/srv/.dev">>) }

\* DEV_DIR as config.py leaves it: the directory .dev of the home
\* directory, or the current directory when that is called .dev and holds
\* scripts/dev.py.
dev_dir_of(current_dir, link) ==
    IF basename(current_dir) = Str(<<".dev">>) /\ current_dir \in Checkouts(link)
    THEN current_dir
    ELSE DEV_DIR

\* hashlib.md5(current_dir.encode()).hexdigest()[:8] of the directories
\* of the model
Md5Prefix ==
    (Str(<<"/home/me/dev">>) :> <<"8", "1", "0", "1", "c", "5", "b", "a">>) @@
    (Str(<<"/home/me/dev/proj">>) :> <<"1", "8", "5", "b", "8", "4", "2", "c">>) @@
    (Str(<<"/home/me/dev2">>) :> <<"b", "0", "b", "4", "f", "3", "6", "c">>) @@
    (Str(<<"/home/me/devx">>) :> <<"3", "4", "8", "b", "9", "7", "6", "0">>) @@
    (Str(<<"/srv">>) :> <<"d", "9", "f", "0", "e", "8", "4", "9">>) @@
    (Str(<<"/home/me/.dev">>) :> <<"b", "a", "f", "2", "0", "f", "b", "5">>) @@
    (Str(<<"/home/me/tools">>) :> <<"7", "f", "5", "8", "a", "3", "4", "8">>) @@
    (Str(<<"/opt/devtools">>) :> <<"2", "9", "0", "a", "4", "3", "a", "5">>) @@
    (Str(<<"/opt/.dev">>) :> <<"6", "a", "6", "3", "9", "6", "3", "5">>) @@
    (Str(<<"/srv/.dev">>) :> <<"c", "f", "6", "d", "1", "2", "d", "8">>)

\* Mutant: the test of the directory is dropped.
get_container_name_sentinel(current_dir, dev_dir) == Str(<<"dev-main">>)

\* Mutant: the name of a running container is the fixed one.
get_container_name_by_runtime(current_dir, dev_dir) ==
    IF current_dir # dev_dir /\ cstate # "Running"
    THEN Str(<<"dev-">>) \o Md5Prefix[current_dir]
    ELSE Str(<<"dev-main">>)

get_container_name(current_dir, dev_dir) ==
    IF current_dir # dev_dir
    THEN Str(<<"dev-">>) \o Md5Prefix[current_dir]
    ELSE Str(<<"dev-main">>)

(***************************************************************************)
(* Descriptor files and working directories given to the program.          *)
(***************************************************************************)
NoFile == [present |-> FALSE, lines |-> <<>>]
FileOf(ls) == [present |-> TRUE, lines |-> ls]

PortLine(h, c) == <<"PORT", "=", h, ":", c>>
MountLine(h, c) == <<"MOUNT", "=", h, ":", c>>

\* PORT lines of a session's dev.env: two well-formed entries, one with a
\* non-numeric host port, one with three fields.
SessionPortLines ==
    { PortLine("8080", "80"), PortLine("9000", "90"), PortLine("http", "80"),
      <<"PORT", "=", "8080", ":", "80", ":", "tcp">> }

SessionMountLines ==
    { <<>>,
      << MountLine("/home/me/dev", "/ws") >>,
      << MountLine("/missing", "/ws") >>,
      << <<" ", "MOUNT", " ", "=", " ", "/data", ":", "/data", ":", "ro", " ">> >> }

SessionFiles ==
    {NoFile} \cup { FileOf(m \o ps) : m \in SessionMountLines,
                                      ps \in SeqsUpTo(SessionPortLines, MaxPorts) }

\* Lines given to the parser alone: blank, comment, without '=', MOUNT with
\* an existing and with a missing host path and without ':', PORT with and
\* without ':', DEFAULT_WORKDIR twice, another key, a value that holds '='.
ParseLines ==
    { <<>>,
      <<"#", " ", "MOUNT", "=", "/data", ":", "/data">>,
      <<"PORT", " ", "9000", ":", "90">>,
      MountLine("/home/me/dev", "/ws"),
      <<" ", "MOUNT", " ", "=", " ", "/data", ":", "/data", ":", "ro", " ">>,
      MountLine("/missing", "/ws"),
      <<"MOUNT", "=", "/data">>,
      PortLine("8080", "80"),
      PortLine("http", "80"),
      <<"PORT", "=", "8080">>,
      <<"DEFAULT_WORKDIR", "=", "/ws">>,
      <<" ", "DEFAULT_WORKDIR", "=", " ", "/srv">>,
      <<"OPTS", "=", "k", "=", "v">> }

\* Lines given to the mapper: mounts that nest, a mount whose host path is a
\* string prefix of a sibling directory, the root, a default directory.
PathLines ==
    { MountLine("/home/me/dev", "/ws"),
      MountLine("/home/me/dev/proj", "/proj"),
      MountLine("/home/me/dev2", "/w2"),
      MountLine("/", "/host"),
      <<"DEFAULT_WORKDIR", "=", "/srv">> }

Cwds == { Str(<<w>>) : w \in {"/home/me/dev", "/home/me/dev/proj",
                              "/home/me/dev2", "/home/me/devx", "/srv"} }

\* The links tried: none, another name for the installation directory, and
\* the installation directory itself a link, to a directory of another
\* name and to one called .dev.
Links == { NoLink,
           Link("/home/me/tools", "/home/me/.dev"),
           Link("/home/me/.dev", "/opt/devtools"),
           Link("/home/me/.dev", "/opt/.dev") }

\* The directories a user may name when starting a session: the
\* installation directory with and without a trailing separator, the
\* second copy of the tool, a project directory, and the two ends of the
\* link.
Locations(link) ==
    { Str(<<"/home/me/.dev">>), Str(<<"/home/me/.dev", "/">>), Str(<<"/srv/.dev">>),
      Str(<<"/home/me/dev/proj">>), Str(<<"/srv">>) }
       \cup (IF link = NoLink THEN {} ELSE {link.from, link.to})

\* The command line of a process: the subcommand ("shell" when dev is run
\* without one) and its options; name tells whether --name was given.
NoArgs == [command |-> "none", name |-> FALSE, all |-> FALSE,
           volumes |-> FALSE, interactive |-> FALSE]
Args(command, name, all, volumes, interactive) ==
    [command |-> command, name |-> name, all |-> all, volumes |-> volumes,
     interactive |-> interactive]

\* Nothing read from the terminal yet
NoAnswer == <<"\n">>

\* The identifier of the container of the current directory in the
\* listing of docker ps, and those of the other development containers
ThisContainer == "c0"
OtherContainers == {"c1", "c2"}

NoCmd == [issued |-> FALSE, volumes |-> <<>>, publish |-> <<>>,
          env |-> <<>>, workdir |-> <<>>]

(***************************************************************************)
(* Pure helpers of the session.                                            *)
(***************************************************************************)
Call(op, arg, out) == [op |-> op, arg |-> arg, out |-> out]
Ops(cs) == { cs[i].op : i \in 1..Len(cs) }
Issued(cs, op) == \E i \in 1..Len(cs) : cs[i].op = op
\* Outcome of the (single) call of a kind in a session's log
OutcomeOf(cs, op) ==
    IF Issued(cs, op) THEN cs[CHOOSE i \in 1..Len(cs) : cs[i].op = op].out
    ELSE "none"

\* The socket probe: bind fails when the port is held by another program or
\* by the running container's own published port.
PortInUse(n) == n \in busy \/ (cstate = "Running" /\ n \in bindings)

check_port_availability(port) ==
    IF ~IsDecimal(port) THEN "ValueError"
    ELSE IF PortInUse(IntOf(port)) THEN "in_use" ELSE "free"

\* mount_str of create_new_container
volume_arg(mount) ==
    IF mount.options # <<>>
    THEN mount.host_path \o <<":">> \o mount.container_path
            \o <<":">> \o mount.options
    ELSE mount.host_path \o <<":">> \o mount.container_path

volume_args(mounts) == [i \in 1..Len(mounts) |-> volume_arg(mounts[i])]

\* Host ports docker binds for a list of --publish arguments
PublishedPorts(pub) == { IntOf(split(pub[i], ":")[1]) : i \in 1..Len(pub) }
\* Mutant: run_command that never exits, whatever check says.
run_command_never_exits(outcome, check) ==
    IF outcome = "oserr" THEN "OSError" ELSE "returned"

\* Mutant: run_command that exits on every non-zero status, check or not.
run_command_always_exits(outcome, check) ==
    CASE outcome = "ok"      -> "returned"
      [] outcome = "nonzero" -> "SystemExit"
      [] outcome = "oserr"   -> "OSError"

\* run_command: what reaches the caller for each outcome of the launched
\* command.  "ok": the output is returned.  "nonzero": CalledProcessError is
\* caught inside run_command, which calls sys.exit(1) when check is set
\* (SystemExit leaves run_command) and returns None otherwise.  "oserr":
\* subprocess.run raised something run_command does not catch.
run_command(outcome, check) ==
    CASE outcome = "ok"      -> "returned"
      [] outcome = "nonzero" -> IF check THEN "SystemExit" ELSE "returned"
      [] outcome = "oserr"   -> "OSError"

\* A caller's `except Exception` clause: SystemExit derives from
\* BaseException and passes through it.
except_Exception(raised) == raised = "OSError"

\* Position after a run_command call: cont when it returned, the handler's
\* continuation when the call sits in try/except Exception and the clause
\* catches, otherwise the process ends.
after_call(r, cont, guarded, handler) ==
    IF r = "returned" THEN cont
    ELSE IF guarded /\ except_Exception(r) THEN handler
    ELSE IF r = "SystemExit" THEN "exited" ELSE "crashed"

\* Mutant: a dispatch without the running case.
select_path_no_running_case(running, exists) ==
    IF exists THEN "start" ELSE "create"

\* Mutant: a dispatch with the start and create branches exchanged.
select_path_swapped(running, exists) ==
    IF running THEN "attach" ELSE IF exists THEN "create" ELSE "start"

\* shell_command's dispatch on the two query answers
select_path(running, exists) ==
    IF running THEN "attach" ELSE IF exists THEN "start" ELSE "create"


(***************************************************************************)
(* Initial states: any container state an earlier session may have left,   *)
(* any occupation of the host ports, a dev.env or none.                    *)
(***************************************************************************)
TypeOK ==
    /\ cstate \in {"Absent", "Stopped", "Running"}
    /\ bindings \subseteq HostPorts
    /\ bashrc \in 0..Cardinality(Sessions)
    /\ nvim \in BOOLEAN
    /\ busy \subseteq HostPorts
    /\ file.present \in BOOLEAN
    /\ initRuns \in 0..MaxInits
    /\ links \in Links
    /\ others \subseteq OtherContainers
    /\ \A p \in Sessions :
          /\ args[p].command \in {"none", "stop", "delete", "exec", "prune"}
          /\ Len(containers[p]) <= 1 + Cardinality(OtherContainers)
          /\ Len(targets[p]) <= Len(containers[p]) \/ args[p].name
    /\ \A p \in Sessions : Len(container_name[p]) \in {0, 8, 12}

InitRuntime ==
    /\ cstate \in {"Absent", "Stopped", "Running"}
    /\ bindings \in SUBSET HostPorts
    /\ busy \in SUBSET HostPorts
    /\ cstate = "Absent" => bindings = {}
    /\ cstate = "Running" => bindings \cap busy = {}
    /\ bashrc \in 0..1
    /\ nvim = (bashrc = 1)
    /\ cstate = "Absent" => bashrc = 0
    /\ initRuns = 0

InitSessions ==
    /\ config = [p \in Sessions |-> EmptyDescriptor]
    /\ work_dir = [p \in Sessions |-> <<>>]
    /\ container_name = [p \in Sessions |-> <<>>]
    /\ pc = [p \in Sessions |-> "idle"]
    /\ obs = [p \in Sessions |-> [running |-> "unknown", exists |-> "unknown"]]
    /\ path = [p \in Sessions |-> "none"]
    /\ calls = [p \in Sessions |-> <<>>]
    /\ conflicts = [p \in Sessions |-> <<>>]
    /\ publish = [p \in Sessions |-> <<>>]
    /\ decided = [p \in Sessions |-> <<>>]
    /\ idx = [p \in Sessions |-> 1]
    /\ runCmd = [p \in Sessions |-> NoCmd]
    /\ entry = [p \in Sessions |-> "none"]
    /\ grep = [p \in Sessions |-> "none"]
    /\ exitCode = [p \in Sessions |-> -1]
    /\ args = [p \in Sessions |-> NoArgs]
    /\ containers = [p \in Sessions |-> <<>>]
    /\ targets = [p \in Sessions |-> <<>>]
    /\ answer = [p \in Sessions |-> NoAnswer]

Init ==
    /\ InitRuntime
    /\ file \in SessionFiles
    /\ links = NoLink
    /\ cwd = os_getcwd(Str(<<"/home/me/dev/proj">>), links)
    /\ others = {}
    /\ InitSessions

(***************************************************************************)
(* How a process ends.  "done": shell_command returned (status 0);         *)
(* "exited": run_command called sys.exit(1); "crashed": an exception left  *)
(* main() uncaught (traceback, status 1).                                  *)
(***************************************************************************)
Terminal == {"done", "exited", "crashed"}
StatusOf(end) == IF end = "done" THEN 0 ELSE IF end \in Terminal THEN 1 ELSE -1

Goto(p, to) ==
    /\ pc' = [pc EXCEPT ![p] = to]
    /\ exitCode' = [exitCode EXCEPT ![p] = StatusOf(to)]

Log(p, op, arg, out) ==
    calls' = [calls EXCEPT ![p] = Append(@, Call(op, arg, out))]

\* Outcomes of launching a docker command: it returned 0, it returned
\* non-zero (CalledProcessError under check=True), or subprocess.run itself
\* raised (OSError: the client could not be launched).
Outcomes == {"ok", "nonzero", "oserr"}

\* Where the start path goes after the probe of entry i-1, and where the
\* create path goes.
start_next(p, i, confl) ==
    IF i <= Len(config[p].ports) THEN "s_probe"
    ELSE IF confl # <<>> THEN "s_update" ELSE "s_start"

create_next(p, i) == IF i <= Len(config[p].ports) THEN "c_probe" ELSE "c_run"

\* Mutant: the start branch goes to the initialization at once.
enter_path_without_start(p, br) ==
    CASE br = "attach" -> "attach"
      [] br = "start"  -> "init"
      [] br = "create" -> create_next(p, 1)

enter_path(p, br) ==
    CASE br = "attach" -> "attach"
      [] br = "start"  -> start_next(p, 1, <<>>)
      [] br = "create" -> create_next(p, 1)

(***************************************************************************)
(* shell_command: the descriptor and the working directory, then the two   *)
(* state queries and the dispatch.                                         *)
(***************************************************************************)
read_descriptor(p) ==
    /\ pc[p] = "idle"
    /\ container_name' = [container_name EXCEPT ![p] =
                            get_container_name(cwd, dev_dir_of(cwd, links))]
    /\ config' = [config EXCEPT ![p] = parse_dev_env_file(file)]
    /\ work_dir' = [work_dir EXCEPT ![p] =
                      determine_working_directory(cwd, parse_dev_env_file(file))]
    /\ Goto(p, "q_running")
    /\ UNCHANGED <<grep, runtimeVars, hostVars, cmdVars, initRuns, obs, path, calls, loopVars,
                   runCmd, entry>>

container_running(p) ==
    /\ pc[p] = "q_running"
    /\ LET r == (cstate = "Running")
           br == select_path(TRUE, TRUE)
       IN /\ obs' = [obs EXCEPT ![p].running = IF r THEN "yes" ELSE "no"]
          /\ Log(p, "ps", <<>>, IF r THEN "yes" ELSE "no")
          /\ entry' = [entry EXCEPT ![p] = cstate]
          /\ IF r
             THEN /\ path' = [path EXCEPT ![p] = br]
                  /\ Goto(p, enter_path(p, br))
             ELSE /\ path' = path
                  /\ Goto(p, "q_exists")
    /\ UNCHANGED <<runtimeVars, hostVars, cmdVars, initRuns, descriptorVars, grep, loopVars,
                   runCmd>>

container_exists(p) ==
    /\ pc[p] = "q_exists"
    /\ LET e == (cstate # "Absent")
           br == select_path(FALSE, e)
       IN /\ obs' = [obs EXCEPT ![p].exists = IF e THEN "yes" ELSE "no"]
          /\ Log(p, "ps_a", <<>>, IF e THEN "yes" ELSE "no")
          /\ path' = [path EXCEPT ![p] = br]
          /\ Goto(p, enter_path(p, br))
    /\ UNCHANGED <<runtimeVars, hostVars, cmdVars, initRuns, descriptorVars, grep, loopVars,
                   runCmd, entry>>

(***************************************************************************)
(* connect_to_running_container and the tail of the other two paths: the   *)
(* interactive docker exec -w work_dir, and the return of shell_command    *)
(* after it.                                                               *)
(***************************************************************************)
attach_shell(p) ==
    /\ pc[p] = "attach"
    /\ \E launched \in BOOLEAN :
          /\ Log(p, "exec_it", work_dir[p], IF launched THEN "ok" ELSE "oserr")
          /\ Goto(p, IF launched THEN "in_shell" ELSE "crashed")
    /\ UNCHANGED <<runtimeVars, hostVars, cmdVars, initRuns, descriptorVars, grep, obs, path,
                   loopVars, runCmd, entry>>

\* Mutant: a session that stops the container when its shell exits.
shell_exit_stopping(p) ==
    /\ pc[p] = "in_shell"
    /\ Goto(p, "done")
    /\ Log(p, "stop", <<>>, "ok")
    /\ cstate' = "Stopped"
    /\ UNCHANGED <<bindings, bashrc, nvim, hostVars, cmdVars, initRuns, descriptorVars, grep,
                   obs, path, loopVars, runCmd, entry>>

shell_exit(p) ==
    /\ pc[p] = "in_shell"
    /\ Goto(p, "done")
    /\ UNCHANGED <<runtimeVars, hostVars, cmdVars, initRuns, descriptorVars, grep, obs, path,
                   calls, loopVars, runCmd, entry>>

(***************************************************************************)
(* start_existing_container.                                               *)
(***************************************************************************)
\* One pass of the loop over config['ports']: split, probe, collect.
start_probe(p) ==
    /\ pc[p] = "s_probe"
    /\ LET host_port == split(config[p].ports[idx[p]], ":")[1]
           a == check_port_availability(host_port)
           confl == IF a = "in_use" THEN Append(conflicts[p], host_port)
                    ELSE conflicts[p]
       IN IF a = "ValueError"
          THEN /\ Goto(p, "crashed")
               /\ UNCHANGED <<conflicts, idx>>
          ELSE /\ conflicts' = [conflicts EXCEPT ![p] = confl]
               /\ idx' = [idx EXCEPT ![p] =
                            IF start_next(p, @ + 1, confl) = "s_probe"
                            THEN @ + 1 ELSE 1]
               /\ Goto(p, start_next(p, idx[p] + 1, confl))
    /\ UNCHANGED <<runtimeVars, hostVars, cmdVars, initRuns, descriptorVars, grep, obs, path,
                   calls, publish, decided, runCmd, entry>>

\* One pass of the loop over port_conflicts, inside try/except Exception:
\* docker container update --publish-rm <port>, run with check=False.
update_publish_rm(p) ==
    /\ pc[p] = "s_update"
    /\ LET port == conflicts[p][idx[p]]
           more == idx[p] < Len(conflicts[p])
       IN \E o \in Outcomes :
                /\ Log(p, "update", port, o)
                /\ o = "ok" => cstate # "Absent"
                /\ bindings' = IF o = "ok" THEN bindings \ {IntOf(port)}
                               ELSE bindings
                /\ LET to == after_call(run_command(o, FALSE),
                                        IF more THEN "s_update" ELSE "s_start",
                                        TRUE, "s_start")
                   IN /\ Goto(p, to)
                      /\ idx' = [idx EXCEPT ![p] =
                                   IF to = "s_update" THEN @ + 1 ELSE 1]
    /\ UNCHANGED <<cstate, bashrc, nvim, hostVars, cmdVars, initRuns, descriptorVars, grep,
                   obs, path, conflicts, publish, decided, runCmd, entry>>

\* docker start, inside try/except Exception whose handler returns; the
\* caller then prints its closing lines and returns.  The runtime starts a
\* stopped container only if none of its published host ports is taken;
\* starting a running container succeeds and changes nothing.
docker_start(p) ==
    /\ pc[p] = "s_start"
    /\ \E o \in Outcomes :
          /\ Log(p, "start", <<>>, o)
          /\ o = "ok" => /\ cstate # "Absent"
                         /\ cstate = "Stopped" => bindings \cap busy = {}
          /\ cstate' = IF o = "ok" THEN "Running" ELSE cstate
          /\ Goto(p, after_call(run_command(o, TRUE), "init", TRUE, "done"))
    /\ UNCHANGED <<bindings, bashrc, nvim, hostVars, cmdVars, initRuns, descriptorVars, grep,
                   obs, path, loopVars, runCmd, entry>>

(***************************************************************************)
(* The initialization script, common to the start and the create path:     *)
(* docker exec <name> bash -c init_script, inside try/except Exception     *)
(* whose handler prints a warning and falls through to the interactive     *)
(* shell.  The script is a sequence of shell commands in the container:    *)
(* mkdir, ln, the grep for the sourcing line, and the append when grep     *)
(* did not find it.                                                        *)
(***************************************************************************)
\* The exec is launched; in the container the script runs up to the grep.
init_exec(p) ==
    /\ pc[p] = "init"
    /\ \E o \in Outcomes :
          /\ o = "ok" => cstate = "Running"
          /\ nvim' = IF o = "ok" THEN TRUE ELSE nvim
          /\ IF o = "ok"
             THEN /\ grep' = [grep EXCEPT ![p] =
                                IF bashrc > 0 THEN "found" ELSE "missing"]
                  /\ calls' = calls
                  /\ Goto(p, "init_append")
             ELSE /\ grep' = grep
                  /\ Log(p, "exec_init", <<>>, o)
                  /\ Goto(p, after_call(run_command(o, TRUE),
                                        "attach", TRUE, "attach"))
    /\ UNCHANGED <<cstate, bindings, bashrc, hostVars, cmdVars, initRuns, descriptorVars,
                   obs, path, loopVars, runCmd, entry>>

\* Mutant: the script appends the line without looking at grep's answer.
init_append_unconditional(p) ==
    /\ pc[p] = "init_append"
    /\ bashrc' = bashrc + 1
    /\ initRuns' = Min(initRuns + 1, MaxInits)
    /\ Log(p, "exec_init", <<>>, "ok")
    /\ Goto(p, after_call(run_command("ok", TRUE), "attach", TRUE, "attach"))
    /\ UNCHANGED <<cstate, bindings, nvim, hostVars, cmdVars, descriptorVars, grep,
                   obs, path, loopVars, runCmd, entry>>

\* The rest of the script: the append when grep did not find the line; the
\* exec then returns 0 to run_command.
init_append(p) ==
    /\ pc[p] = "init_append"
    /\ bashrc' = IF grep[p] = "missing" THEN bashrc + 1 ELSE bashrc
    /\ initRuns' = Min(initRuns + 1, MaxInits)
    /\ Log(p, "exec_init", <<>>, "ok")
    /\ Goto(p, after_call(run_command("ok", TRUE), "attach", TRUE, "attach"))
    /\ UNCHANGED <<cstate, bindings, nvim, hostVars, cmdVars, descriptorVars, grep,
                   obs, path, loopVars, runCmd, entry>>

(***************************************************************************)
(* create_new_container.                                                   *)
(***************************************************************************)
\* Mutant: every configured entry is published.
publish_entry_always(availability) == TRUE

\* The decision on one configured entry: publish it when the probe of its
\* host port found the port free, skip it when the port is in use.
publish_entry(availability) == availability = "free"

\* One pass of the loop over config['ports']:
\*   host_port, container_port = port_mapping.split(':')
\* raises ValueError unless the entry has exactly two fields.
create_probe(p) ==
    /\ pc[p] = "c_probe"
    /\ LET port_mapping == config[p].ports[idx[p]]
           a == IF Len(split(port_mapping, ":")) # 2 THEN "ValueError"
                ELSE check_port_availability(split(port_mapping, ":")[1])
       IN IF a = "ValueError"
          THEN /\ Goto(p, "crashed")
               /\ UNCHANGED <<publish, decided, idx>>
          ELSE /\ publish' = [publish EXCEPT ![p] =
                                IF publish_entry(a) THEN Append(@, port_mapping)
                                ELSE @]
               /\ decided' = [decided EXCEPT ![p] =
                                Append(@, [entry |-> port_mapping,
                                           publish |-> publish_entry(a)])]
               /\ idx' = [idx EXCEPT ![p] =
                            IF create_next(p, @ + 1) = "c_probe" THEN @ + 1
                            ELSE 1]
               /\ Goto(p, create_next(p, idx[p] + 1))
    /\ UNCHANGED <<runtimeVars, hostVars, cmdVars, initRuns, descriptorVars, grep, obs,
                   path, calls, conflicts, runCmd, entry>>

\* docker run -d -it --name <name> --volume=... --publish=... --env=...
\* --workdir=<work_dir> <image>, run with check=True and outside any try.
\* The runtime rejects the name when a container of that name exists.
\* Otherwise it creates the container and starts it; when the start fails
\* (a published port is taken) the created container stays behind, not
\* running.
docker_run(p) ==
    /\ pc[p] = "c_run"
    /\ runCmd' = [runCmd EXCEPT ![p] =
                    [issued |-> TRUE,
                     volumes |-> volume_args(config[p].mounts),
                     publish |-> publish[p],
                     env |-> config[p].env_vars,
                     workdir |-> work_dir[p]]]
    /\ \E o \in Outcomes, created \in BOOLEAN :
          LET ports == PublishedPorts(publish[p])
              duplicate == cstate # "Absent"
          IN /\ o = "ok" => ~duplicate /\ ports \cap busy = {} /\ created
             /\ (duplicate \/ o = "oserr") => o # "ok" /\ ~created
             /\ IF created
                THEN /\ cstate' = IF o = "ok" THEN "Running" ELSE "Stopped"
                     /\ bindings' = ports
                     /\ bashrc' = 0
                     /\ nvim' = FALSE
                     /\ initRuns' = 0
                ELSE UNCHANGED <<runtimeVars, initRuns>>
             /\ Log(p, "run", <<>>,
                    IF duplicate /\ o = "nonzero" THEN "duplicate" ELSE o)
             /\ Goto(p, after_call(run_command(o, TRUE), "init", FALSE, "init"))
    /\ UNCHANGED <<hostVars, cmdVars, descriptorVars, grep, obs, path, loopVars, entry>>

(***************************************************************************)
(* The other commands of dev.  Each is a process of the terminal: it       *)
(* starts where shell_command would, and ends as a session does.           *)
(***************************************************************************)
LowerOf(c) ==
    CASE c = "A" -> "a"
      [] c = "Q" -> "q"
      [] c = "Y" -> "y"
      [] c = "N" -> "n"
      [] OTHER -> c

\* str.lower()
lower(s) == [i \in 1..Len(s) |-> LowerOf(s[i])]

\* What the user may type at a prompt
Answers == { <<"y">>, <<"Y">>, <<"n">>, <<>>, <<"y", "e", "s">>, <<"q">>, <<"Q">>,
             <<" ", "q">>, <<"a">>, <<"1">>, <<"2">>, <<"3">>, <<"0">> }

\* docker ps --filter name=dev-: the running development containers
running_dev_containers ==
    (IF cstate = "Running" THEN <<ThisContainer>> ELSE <<>>)
       \o (IF "c1" \in others THEN <<"c1">> ELSE <<>>)
       \o (IF "c2" \in others THEN <<"c2">> ELSE <<>>)

\* get_running_dev_containers: the listing is run with check=False, and
\* without output the result is the empty list.
get_running_dev_containers(outcome) ==
    IF outcome = "ok" THEN running_dev_containers ELSE <<>>

\* The container is removed: its bindings and its file system go with it.
Removed ==
    /\ cstate' = "Absent"
    /\ bindings' = {}
    /\ bashrc' = 0
    /\ nvim' = FALSE
    /\ initRuns' = 0

\* A process of dev begins with its command line.
Start(p, command, name, all, volumes, interactive) ==
    /\ pc[p] = "idle"
    /\ args' = [args EXCEPT ![p] = Args(command, name, all, volumes, interactive)]

(***************************************************************************)
(* stop_command.                                                           *)
(***************************************************************************)
\* With --name: the query of the named container, here the container of
\* the current directory.  Without: the listing, and the dispatch on the
\* number of containers listed.
stop_command(p) ==
    /\ \E name \in BOOLEAN : Start(p, "stop", name, FALSE, FALSE, FALSE)
    /\ entry' = [entry EXCEPT ![p] = cstate]
    /\ IF args'[p].name
       THEN LET r == (cstate = "Running")
            IN /\ obs' = [obs EXCEPT ![p].running = IF r THEN "yes" ELSE "no"]
               /\ Log(p, "ps", <<>>, IF r THEN "yes" ELSE "no")
               /\ containers' = containers
               /\ targets' = [targets EXCEPT ![p] =
                                IF r THEN <<ThisContainer>> ELSE <<>>]
               /\ Goto(p, IF r THEN "k_stop" ELSE "done")
       ELSE \E o \in Outcomes :
               LET r == run_command(o, FALSE)
                   found == get_running_dev_containers(o)
               IN /\ Log(p, "ps_dev", <<>>, o)
                  /\ obs' = obs
                  /\ containers' = [containers EXCEPT ![p] =
                                      IF r = "returned" THEN found ELSE <<>>]
                  /\ targets' = [targets EXCEPT ![p] =
                                   IF r = "returned" /\ Len(found) = 1
                                   THEN found ELSE <<>>]
                  /\ Goto(p, IF r # "returned" THEN "crashed"
                             ELSE IF Len(found) = 0 THEN "done"
                             ELSE IF Len(found) = 1 THEN "k_stop"
                             ELSE "k_menu")
    /\ UNCHANGED <<runtimeVars, hostVars, initRuns, sessionVars, others, answer>>

\* Mutant: a menu in which q stands for all containers.
selection_of_quit_is_all(choice, n) ==
    IF choice = <<"q">> \/ choice = <<"a">> THEN "all"
    ELSE IF IsDecimal(choice) /\ 1 <= IntOf(choice) /\ IntOf(choice) <= n
         THEN "one"
    ELSE "again"

\* display_container_selection's reading of one line, already stripped and
\* lowered, for a menu of n containers
selection_of(choice, n) ==
    IF choice = <<"q">> THEN "none"
    ELSE IF choice = <<"a">> THEN "all"
    ELSE IF IsDecimal(choice) /\ 1 <= IntOf(choice) /\ IntOf(choice) <= n
         THEN "one"
    ELSE "again"

\* One line read by the menu: q returns 'none' and stop_command returns, a
\* returns 'all', a number in range returns that container, and anything
\* else prompts again.
display_container_selection(p) ==
    /\ pc[p] = "k_menu"
    /\ \E line \in Answers :
          LET choice == lower(strip(line))
              selection == selection_of(choice, Len(containers[p]))
          IN /\ answer' = [answer EXCEPT ![p] = line]
             /\ targets' = [targets EXCEPT ![p] =
                   CASE selection = "all" -> containers[p]
                     [] selection = "one" -> << containers[p][IntOf(choice)] >>
                     [] OTHER -> <<>>]
             /\ Goto(p, CASE selection = "none" -> "done"
                          [] selection = "again" -> "k_menu"
                          [] OTHER -> "k_stop")
    /\ UNCHANGED <<runtimeVars, hostVars, initRuns, sessionVars, obs, calls, entry,
                   others, args, containers>>

\* docker stop -t 1 of the next container to stop, with check=True
docker_stop(p) ==
    /\ pc[p] = "k_stop"
    /\ targets[p] # <<>>
    /\ \E o \in Outcomes :
          LET id == Head(targets[p])
              stopped == (o = "ok")
          IN /\ Log(p, "stop", <<id>>, o)
             /\ (stopped /\ id = ThisContainer) => cstate # "Absent"
             /\ cstate' = IF stopped /\ id = ThisContainer /\ cstate = "Running"
                          THEN "Stopped" ELSE cstate
             /\ others' = IF stopped THEN others \ {id} ELSE others
             /\ targets' = [targets EXCEPT ![p] = Tail(@)]
             /\ Goto(p, after_call(run_command(o, TRUE),
                                   IF Tail(targets[p]) = <<>> THEN "done" ELSE "k_stop",
                                   FALSE, "done"))
    /\ UNCHANGED <<bindings, bashrc, nvim, hostVars, initRuns, sessionVars, obs,
                   entry, args, containers, answer>>

(***************************************************************************)
(* delete_command.                                                         *)
(***************************************************************************)
\* Mutant: a delete that removes without stopping.
delete_after_running_query_rm(running) == "d_rm"

\* After container_running: stop first when it runs
delete_after_running_query(running) == IF running THEN "d_stop" ELSE "d_rm"

\* The name is fixed and container_exists is asked.
delete_command(p) ==
    /\ \E name \in BOOLEAN : Start(p, "delete", name, FALSE, FALSE, FALSE)
    /\ container_name' = [container_name EXCEPT ![p] =
                            get_container_name(cwd, dev_dir_of(cwd, links))]
    /\ entry' = [entry EXCEPT ![p] = cstate]
    /\ LET e == (cstate # "Absent")
       IN /\ obs' = [obs EXCEPT ![p].exists = IF e THEN "yes" ELSE "no"]
          /\ Log(p, "ps_a", <<>>, IF e THEN "yes" ELSE "no")
          /\ Goto(p, IF e THEN "d_running" ELSE "done")
    /\ UNCHANGED <<runtimeVars, hostVars, initRuns, config, work_dir, loopVars, path,
                   runCmd, grep, others, containers, targets, answer>>

delete_running_query(p) ==
    /\ pc[p] = "d_running"
    /\ LET r == (cstate = "Running")
       IN /\ obs' = [obs EXCEPT ![p].running = IF r THEN "yes" ELSE "no"]
          /\ Log(p, "ps", <<>>, IF r THEN "yes" ELSE "no")
          /\ Goto(p, delete_after_running_query(r))
    /\ UNCHANGED <<runtimeVars, hostVars, initRuns, sessionVars, entry, cmdVars>>

delete_stop(p) ==
    /\ pc[p] = "d_stop"
    /\ \E o \in Outcomes :
          /\ Log(p, "stop", <<ThisContainer>>, o)
          /\ o = "ok" => cstate # "Absent"
          /\ cstate' = IF o = "ok" THEN "Stopped" ELSE cstate
          /\ Goto(p, after_call(run_command(o, TRUE), "d_rm", FALSE, "done"))
    /\ UNCHANGED <<bindings, bashrc, nvim, hostVars, initRuns, sessionVars, obs,
                   entry, cmdVars>>

\* docker rm, with check=True: the runtime removes a container that is
\* not running.
delete_rm(p) ==
    /\ pc[p] = "d_rm"
    /\ \E o \in Outcomes :
          /\ Log(p, "rm", <<ThisContainer>>, o)
          /\ o = "ok" => cstate = "Stopped"
          /\ IF o = "ok" THEN Removed
             ELSE UNCHANGED <<runtimeVars, initRuns>>
          /\ Goto(p, after_call(run_command(o, TRUE), "done", FALSE, "done"))
    /\ UNCHANGED <<hostVars, sessionVars, obs, entry, cmdVars>>

(***************************************************************************)
(* exec_command.                                                           *)
(***************************************************************************)
\* Mutant: an exec that goes on without a container.
exec_after_exists_query_exec(exists) == IF exists THEN "e_start" ELSE "e_exec"

\* After container_exists: start it, or give up
exec_after_exists_query(exists) == IF exists THEN "e_start" ELSE "done"

\* The name is fixed and container_running is asked.
exec_command(p) ==
    /\ \E name, interactive \in BOOLEAN :
          Start(p, "exec", name, FALSE, FALSE, interactive)
    /\ container_name' = [container_name EXCEPT ![p] =
                            get_container_name(cwd, dev_dir_of(cwd, links))]
    /\ entry' = [entry EXCEPT ![p] = cstate]
    /\ LET r == (cstate = "Running")
       IN /\ obs' = [obs EXCEPT ![p].running = IF r THEN "yes" ELSE "no"]
          /\ Log(p, "ps", <<>>, IF r THEN "yes" ELSE "no")
          /\ Goto(p, IF r THEN "e_exec" ELSE "e_exists")
    /\ UNCHANGED <<runtimeVars, hostVars, initRuns, config, work_dir, loopVars, path,
                   runCmd, grep, others, containers, targets, answer>>

exec_exists_query(p) ==
    /\ pc[p] = "e_exists"
    /\ LET e == (cstate # "Absent")
       IN /\ obs' = [obs EXCEPT ![p].exists = IF e THEN "yes" ELSE "no"]
          /\ Log(p, "ps_a", <<>>, IF e THEN "yes" ELSE "no")
          /\ Goto(p, exec_after_exists_query(e))
    /\ UNCHANGED <<runtimeVars, hostVars, initRuns, sessionVars, entry, cmdVars>>

\* docker start, with check=True and outside any try
exec_start(p) ==
    /\ pc[p] = "e_start"
    /\ \E o \in Outcomes :
          /\ Log(p, "start", <<>>, o)
          /\ o = "ok" => /\ cstate # "Absent"
                         /\ cstate = "Stopped" => bindings \cap busy = {}
          /\ cstate' = IF o = "ok" THEN "Running" ELSE cstate
          /\ Goto(p, after_call(run_command(o, TRUE), "e_exec", FALSE, "done"))
    /\ UNCHANGED <<bindings, bashrc, nvim, hostVars, initRuns, sessionVars, obs,
                   entry, cmdVars>>

\* subprocess.run of docker exec [-it] name command: its status is not
\* looked at.
exec_run(p) ==
    /\ pc[p] = "e_exec"
    /\ \E o \in Outcomes :
          /\ Log(p, "exec", IF args[p].interactive THEN <<"-it">> ELSE <<>>, o)
          /\ o = "ok" => cstate = "Running"
          /\ Goto(p, IF o = "oserr" THEN "crashed" ELSE "done")
    /\ UNCHANGED <<runtimeVars, hostVars, initRuns, sessionVars, obs, entry, cmdVars>>

(***************************************************************************)
(* prune_command.                                                          *)
(***************************************************************************)
\* Mutant: a prompt whose default is yes.
confirmed_unless_no(confirm) == lower(confirm) # <<"n">>

\* The test of the answer to "Are you sure you want to continue? [y/N]"
confirmed(confirm) == lower(confirm) = <<"y">>

\* The prune that follows one, by the options
prune_after(step, all, volumes) ==
    CASE step = "p_container" -> IF all THEN "p_network" ELSE "p_image"
      [] step = "p_network" -> "p_image"
      [] step = "p_image" -> IF all /\ volumes THEN "p_volume" ELSE "done"
      [] step = "p_volume" -> "done"

\* With --all the user is asked first.
prune_command(p) ==
    /\ \E all, volumes \in BOOLEAN : Start(p, "prune", FALSE, all, volumes, FALSE)
    /\ Goto(p, IF args'[p].all THEN "p_confirm" ELSE "p_container")
    /\ UNCHANGED <<runtimeVars, hostVars, initRuns, sessionVars, obs, calls, entry,
                   others, containers, targets, answer>>

prune_confirm(p) ==
    /\ pc[p] = "p_confirm"
    /\ \E confirm \in Answers :
          /\ answer' = [answer EXCEPT ![p] = confirm]
          /\ Goto(p, IF confirmed(confirm) THEN "p_container" ELSE "done")
    /\ UNCHANGED <<runtimeVars, hostVars, initRuns, sessionVars, obs, calls, entry,
                   others, args, containers, targets>>

\* One docker ... prune -f, run with subprocess.run: its status is not
\* looked at.  docker container prune removes the stopped containers.
docker_prune(p) ==
    /\ pc[p] \in {"p_container", "p_network", "p_image", "p_volume"}
    /\ \E o \in Outcomes :
          /\ Log(p, pc[p], IF pc[p] = "p_image" /\ args[p].all THEN <<"-a">> ELSE <<>>, o)
          /\ IF o = "ok" /\ pc[p] = "p_container" /\ cstate = "Stopped"
             THEN Removed
             ELSE UNCHANGED <<runtimeVars, initRuns>>
          /\ Goto(p, IF o = "oserr" THEN "crashed"
                     ELSE prune_after(pc[p], args[p].all, args[p].volumes))
    /\ UNCHANGED <<hostVars, sessionVars, obs, entry, cmdVars>>

(***************************************************************************)
(* The next launch of dev from the same terminal.                          *)
(***************************************************************************)
\* A new process for the same terminal: shell_command starts afresh.
relaunch(p) ==
    /\ pc[p] \in Terminal
    /\ initRuns < MaxInits
    /\ config' = [config EXCEPT ![p] = EmptyDescriptor]
    /\ work_dir' = [work_dir EXCEPT ![p] = <<>>]
    /\ container_name' = [container_name EXCEPT ![p] = <<>>]
    /\ pc' = [pc EXCEPT ![p] = "idle"]
    /\ obs' = [obs EXCEPT ![p] = [running |-> "unknown", exists |-> "unknown"]]
    /\ path' = [path EXCEPT ![p] = "none"]
    /\ calls' = [calls EXCEPT ![p] = <<>>]
    /\ conflicts' = [conflicts EXCEPT ![p] = <<>>]
    /\ publish' = [publish EXCEPT ![p] = <<>>]
    /\ decided' = [decided EXCEPT ![p] = <<>>]
    /\ idx' = [idx EXCEPT ![p] = 1]
    /\ runCmd' = [runCmd EXCEPT ![p] = NoCmd]
    /\ entry' = [entry EXCEPT ![p] = "none"]
    /\ grep' = [grep EXCEPT ![p] = "none"]
    /\ exitCode' = [exitCode EXCEPT ![p] = -1]
    /\ args' = [args EXCEPT ![p] = NoArgs]
    /\ containers' = [containers EXCEPT ![p] = <<>>]
    /\ targets' = [targets EXCEPT ![p] = <<>>]
    /\ answer' = [answer EXCEPT ![p] = NoAnswer]
    /\ UNCHANGED <<runtimeVars, hostVars, others, initRuns>>

(***************************************************************************)
(* Specifications.                                                         *)
(*   Spec      one session, from any runtime state and any session file.   *)
(*   SpecConc  two sessions for the same identity, interleaved at every    *)
(*             interaction.                                                *)
(*   SpecSeq   sessions one after the other, with `dev stop` between them. *)
(*   SpecCmd   stop, delete, exec and prune, one after the other.          *)
(*   SpecFile  the parser and the mapper alone, on every file of up to     *)
(*             MaxLines lines.                                             *)
(***************************************************************************)
Step(p) ==
    \/ read_descriptor(p)
    \/ container_running(p)
    \/ container_exists(p)
    \/ attach_shell(p)
    \/ shell_exit(p)
    \/ start_probe(p)
    \/ update_publish_rm(p)
    \/ docker_start(p)
    \/ init_exec(p)
    \/ init_append(p)
    \/ create_probe(p)
    \/ docker_run(p)

Next == Step("s1")

Spec == Init /\ [][Next]_vars

\* Two sessions share one well-formed descriptor (a malformed entry ends a
\* session in its probe loop, before any docker command that changes state)
\* without repeated PORT lines; a container that is running at the start has
\* been initialised by the session that created it, a stopped one may have
\* been left behind by a docker run whose start failed.
WellFormed(port_mapping) ==
    /\ Len(split(port_mapping, ":")) = 2
    /\ IsDecimal(split(port_mapping, ":")[1])

ConcFiles ==
    { f \in SessionFiles :
        /\ parse_dev_env_file(f).mounts
              = << Mount(Str(<<"/home/me/dev">>), Str(<<"/ws">>), <<>>) >>
        /\ LET ports == parse_dev_env_file(f).ports
           IN /\ \A i \in 1..Len(ports) : WellFormed(ports[i])
              /\ \A i, j \in 1..Len(ports) : ports[i] = ports[j] => i = j }

InitConc ==
    /\ file \in ConcFiles
    /\ Init
    /\ cstate = "Running" => bashrc = 1

NextConc == \E p \in Sessions : Step(p)

SpecConc == InitConc /\ [][NextConc]_vars

\* One terminal, one mount line and one port line.
InitSeq ==
    /\ InitRuntime
    /\ InitSessions
    /\ links = NoLink
    /\ others \in SUBSET OtherContainers
    /\ \E location \in {Str(<<"/home/me/dev/proj">>), DEV_DIR} :
          cwd = os_getcwd(location, links)
    /\ file = FileOf(<< MountLine("/home/me/dev", "/ws"), PortLine("8080", "80") >>)

Stop(p) ==
    \/ stop_command(p)
    \/ display_container_selection(p)
    \/ docker_stop(p)

NextSeq == Step("s1") \/ Stop("s1") \/ relaunch("s1")

SpecSeq == InitSeq /\ [][NextSeq]_vars

\* One terminal, one command after the other, from any runtime state.
Delete(p) ==
    \/ delete_command(p)
    \/ delete_running_query(p)
    \/ delete_stop(p)
    \/ delete_rm(p)

Exec(p) ==
    \/ exec_command(p)
    \/ exec_exists_query(p)
    \/ exec_start(p)
    \/ exec_run(p)

Prune(p) ==
    \/ prune_command(p)
    \/ prune_confirm(p)
    \/ docker_prune(p)

InitCmd ==
    /\ InitRuntime
    /\ InitSessions
    /\ file = NoFile
    /\ links = NoLink
    /\ cwd = os_getcwd(Str(<<"/home/me/dev/proj">>), links)
    /\ others \in SUBSET OtherContainers

NextCmd == Stop("s1") \/ Delete("s1") \/ Exec("s1") \/ Prune("s1") \/ relaunch("s1")

SpecCmd == InitCmd /\ [][NextCmd]_vars

\* The parser and the mapper alone: files of parser lines read from one
\* directory, files of mapper lines read from each directory, and no file
\* with each directory a session may be named in, links included.
ParseFiles == { FileOf(ls) : ls \in SeqsUpTo(ParseLines, MaxLines) }
PathFiles == { FileOf(ls) : ls \in SeqsUpTo(PathLines, MaxLines) }

InitFile ==
    /\ \/ /\ file \in ParseFiles \cup {NoFile}
          /\ links = NoLink
          /\ cwd = Str(<<"/home/me/dev/proj">>)
       \/ /\ file \in PathFiles
          /\ links = NoLink
          /\ cwd \in Cwds
       \/ /\ file = NoFile
          /\ links \in Links
          /\ \E location \in Locations(links) : cwd = os_getcwd(location, links)
    /\ cstate = "Absent"
    /\ bindings = {}
    /\ busy = {}
    /\ bashrc = 0
    /\ nvim = FALSE
    /\ initRuns = 0
    /\ others = {}
    /\ InitSessions

NextFile == read_descriptor("s1")

SpecFile == InitFile /\ [][NextFile]_vars

(***************************************************************************)
(* Properties of the session controller.                                   *)
(***************************************************************************)
Mutating == {"run", "start", "stop", "rm", "update"}

\* C1: a session that found the container running issues no create, start,
\* stop or remove: its only docker calls are the state queries and the
\* interactive exec.
C1_RunningSessionOnlyQueriesAndExec ==
    \A p \in Sessions :
        entry[p] = "Running" =>
            /\ Ops(calls[p]) \subseteq {"ps", "ps_a", "exec_it"}
            /\ Ops(calls[p]) \cap Mutating = {}

C1_Witness ==
    \E p \in Sessions :
        /\ entry[p] = "Running"
        /\ pc[p] = "done"
        /\ Ops(calls[p]) = {"ps", "exec_it"}

\* C2: one session takes exactly one path and the path is the one for the
\* runtime state: attach-only for Running, start-then-attach for Stopped,
\* create-then-attach for Absent; the calls of the other paths never appear.
PathFor(state) ==
    CASE state = "Running" -> "attach"
      [] state = "Stopped" -> "start"
      [] state = "Absent"  -> "create"

C2_PathMatchesState ==
    \A p \in Sessions :
        /\ path[p] # "none" => path[p] = PathFor(entry[p])
        /\ Issued(calls[p], "run") => entry[p] = "Absent"
        /\ (Issued(calls[p], "start") \/ Issued(calls[p], "update"))
              => entry[p] = "Stopped"
        /\ (pc[p] = "done" /\ entry[p] = "Running")
              => ~Issued(calls[p], "exec_init")
        /\ pc[p] = "in_shell" =>
              \/ entry[p] = "Running"
              \/ entry[p] = "Stopped" /\ Issued(calls[p], "start")
              \/ entry[p] = "Absent" /\ Issued(calls[p], "run")

C2_Witness ==
    \E p \in Sessions :
        /\ entry[p] = "Stopped"
        /\ path[p] = "start"
        /\ pc[p] = "in_shell"
        /\ cstate = "Running"

\* C3 (as claimed): when two sessions both saw the container Absent and both
\* issued docker run, the one whose run the runtime rejects as a duplicate
\* (the other's having created the container) neither exits with an error
\* nor crashes, and once it has ended it has attached a shell.
C3_DuplicateCreateDegradesToAttach ==
    \A p \in Sessions : \A q \in Sessions \ {p} :
        ( /\ entry[p] = "Absent" /\ entry[q] = "Absent"
          /\ OutcomeOf(calls[q], "run") = "ok"
          /\ OutcomeOf(calls[p], "run") = "duplicate" ) =>
            /\ pc[p] \notin {"exited", "crashed"}
            /\ pc[p] = "done" => Issued(calls[p], "exec_it")

\* C4 (as claimed): an initialization exec that returns non-zero is only a
\* warning: the session goes on to the interactive attach.
C4_InitFailureIsOnlyAWarning ==
    \A p \in Sessions :
        OutcomeOf(calls[p], "exec_init") = "nonzero" =>
            /\ pc[p] \in {"attach", "in_shell", "done"}
            /\ pc[p] \in {"in_shell", "done"} => Issued(calls[p], "exec_it")

\* C5: when docker run or docker start fails, the session ends there: no
\* initialization exec and no interactive attach follow, and a failure
\* reported by the runtime ends the process with status 1.
RuntimeRefused(p) ==
    \/ OutcomeOf(calls[p], "run") \in {"nonzero", "duplicate"}
    \/ OutcomeOf(calls[p], "start") = "nonzero"

LaunchFailed(p) ==
    \/ OutcomeOf(calls[p], "run") = "oserr"
    \/ OutcomeOf(calls[p], "start") = "oserr"

C5_CreateOrStartFailureAborts ==
    \A p \in Sessions :
        /\ (RuntimeRefused(p) \/ LaunchFailed(p)) =>
              /\ pc[p] \in Terminal
              /\ ~Issued(calls[p], "exec_init")
              /\ ~Issued(calls[p], "exec_it")
        /\ RuntimeRefused(p) => exitCode[p] = 1

C5_Witness ==
    /\ OutcomeOf(calls["s1"], "run") = "nonzero"
    /\ OutcomeOf(calls["s2"], "start") = "nonzero"
    /\ pc["s1"] = "exited"
    /\ pc["s2"] = "exited"

\* C6: from the moment a session's shell is attached, that session issues no
\* further docker call, and its own steps (the shell's exit) leave the
\* runtime as it is: a running container stays running.
C6_ShellExitLeavesContainerRunning ==
    [][ \A p \in Sessions :
           pc[p] \in ({"in_shell"} \cup Terminal) =>
              /\ calls'[p] = calls[p]
              /\ pc'[p] # pc[p] => runtimeVars' = runtimeVars ]_vars

C6_Witness ==
    /\ pc["s1"] = "done"
    /\ Issued(calls["s1"], "exec_it")
    /\ pc["s2"] = "in_shell"
    /\ cstate = "Running"


\* C7 (as claimed): in the Absent path, with one valid mount and one port
\* entry whose host port is occupied, the docker run command carries that
\* mount and no --publish for the occupied port, and once the container has
\* been created the session reaches the interactive attach.
OneMountOneOccupiedPort(p) ==
    /\ Len(config[p].mounts) = 1
    /\ Len(config[p].ports) = 1
    /\ WellFormed(config[p].ports[1])
    /\ IntOf(split(config[p].ports[1], ":")[1]) \in busy

C7_CreateWithMountWithoutOccupiedPort ==
    \A p \in Sessions :
        (entry[p] = "Absent" /\ OneMountOneOccupiedPort(p) /\ runCmd[p].issued) =>
            /\ runCmd[p].volumes = << volume_arg(config[p].mounts[1]) >>
            /\ runCmd[p].publish = <<>>
            /\ (OutcomeOf(calls[p], "run") = "ok" /\ pc[p] \in Terminal)
                  => Issued(calls[p], "exec_it")

\* C8: in create mode the --publish arguments of docker run are exactly the
\* configured entries whose host port is not occupied, in configured order.
HostPortFree(port_mapping) == IntOf(split(port_mapping, ":")[1]) \notin busy

C8_PublishSetIsTheFreeEntries ==
    \A p \in Sessions :
        runCmd[p].issued =>
            runCmd[p].publish = SelectSeq(config[p].ports, HostPortFree)

C8_Witness ==
    \E p \in Sessions :
        /\ runCmd[p].issued
        /\ config[p].ports = << Str(<<"8080", ":", "80">>),
                             Str(<<"9000", ":", "90">>) >>
        /\ busy = {8080}
        /\ runCmd[p].publish = << Str(<<"9000", ":", "90">>) >>

\* C9 (as claimed): before docker start is issued, a removal has been issued
\* for every port binding of the existing container whose host port is in
\* use by something else, in the descriptor or not.
UpdateIssuedFor(p, n) ==
    \E i \in 1..Len(calls[p]) :
        calls[p][i].op = "update" /\ IntOf(calls[p][i].arg) = n

C9_StartUnpublishesEveryOccupiedBinding ==
    \A p \in Sessions :
        pc[p] = "s_start" =>
            \A n \in bindings : n \in busy => UpdateIssuedFor(p, n)

\* C10: in the Stopped path no outcome of a docker container update ends the
\* session: once an update has been issued, docker start is issued as well.
C10_UpdateFailureNeverPreventsStart ==
    \A p \in Sessions :
        Issued(calls[p], "update") =>
            \/ pc[p] \in {"s_update", "s_start"}
            \/ Issued(calls[p], "start")

C10_Witness ==
    \E p \in Sessions : \E i, j \in 1..Len(calls[p]) :
        /\ i < j
        /\ calls[p][i].op = "update"
        /\ calls[p][i].out = "nonzero"
        /\ calls[p][j].op = "start"


\* C11 (as claimed): two sessions that both found the container Stopped,
\* whose docker start the runtime accepted and whose interactive exec could
\* be launched, both reach the interactive attach in every interleaving,
\* and the container is running.
BothFromStopped ==
    /\ \A p \in Sessions : entry[p] = "Stopped"
    /\ \A p \in Sessions : OutcomeOf(calls[p], "start") = "ok"
    /\ \A p \in Sessions : OutcomeOf(calls[p], "exec_it") # "oserr"

C11_ConcurrentStartsBothAttach ==
    (BothFromStopped /\ \A p \in Sessions : pc[p] \in Terminal \cup {"in_shell"})
        => /\ \A p \in Sessions : Issued(calls[p], "exec_it")
           /\ cstate = "Running"

\* C12: however often the initialization script has run in a container, the
\* sourcing line is in /home/me/.bashrc exactly once after a run, and never
\* more than once.
C12_InitLeavesOneSourcingLine ==
    /\ bashrc <= 1
    /\ initRuns >= 1 => bashrc = 1

C12_Witness ==
    /\ initRuns >= 2
    /\ bashrc = 1
    /\ pc["s1"] = "in_shell"
    /\ entry["s1"] = "Stopped"

(***************************************************************************)
(* Properties of the working-directory mapper.                             *)
(***************************************************************************)
IsPrefixOf(a, b) == Len(a) <= Len(b) /\ SubSeq(b, 1, Len(a)) = a

\* dir is host or a directory below host
LiesUnder(dir, host) == IsPrefixOf(components(host), components(dir))

\* host is a string prefix of dir, which is a sibling and not below host
SiblingOf(dir, host) == startswith(dir, host) /\ ~LiesUnder(dir, host)

Parsed(p) == pc[p] # "idle"

MountsOver(p) ==
    { i \in 1..Len(config[p].mounts) :
         LiesUnder(cwd, config[p].mounts[i].host_path) }

FirstOver(p) == CHOOSE i \in MountsOver(p) : \A j \in MountsOver(p) : i <= j

\* C13 (as claimed): a mount whose host path is a string prefix of cwd while
\* cwd is a sibling directory does not match; when cwd lies under no mount
\* the result is default_workdir.
C13_SiblingDirectoryFallsBackToDefault ==
    \A p \in Sessions :
        ( /\ Parsed(p)
          /\ \E i \in 1..Len(config[p].mounts) :
                SiblingOf(cwd, config[p].mounts[i].host_path)
          /\ MountsOver(p) = {} )
        => work_dir[p] = config[p].default_workdir

\* C14 (as claimed): when cwd lies under several mounts, the result is the
\* mapping through the one declared first among them, whatever the lengths
\* of the host paths.
C14_FirstDeclaredMountWins ==
    \A p \in Sessions :
        (Parsed(p) /\ Cardinality(MountsOver(p)) >= 2)
        => work_dir[p] = mapped_directory(cwd, config[p].mounts[FirstOver(p)])

\* The part of dir below host, for a dir strictly below host
Remainder(dir, host) ==
    join_components(SubSeq(components(dir), Len(components(host)) + 1,
                           Len(components(dir))))

HasDefaultWorkdirLine ==
    \E i \in 1..Len(file.lines) :
        \E j \in 1..Len(file.lines[i]) : file.lines[i][j] = "DEFAULT_WORKDIR"

\* C15 (as claimed): for a cwd strictly below the host path of the first
\* mount it lies under, the result is that mount's container path, "/", and
\* the rest of cwd; for a cwd under no mount it is default_workdir, which
\* is /home/me when the file has no DEFAULT_WORKDIR line.
C15_DescendantMapsElseDefault ==
    \A p \in Sessions : Parsed(p) =>
        /\ MountsOver(p) # {} =>
              LET m == config[p].mounts[FirstOver(p)]
              IN Len(components(cwd)) > Len(components(m.host_path)) =>
                    work_dir[p] = m.container_path \o <<"/">>
                                     \o Remainder(cwd, m.host_path)
        /\ MountsOver(p) = {} =>
              /\ work_dir[p] = config[p].default_workdir
              /\ ~HasDefaultWorkdirLine => work_dir[p] = Str(<<"/home/me">>)

(***************************************************************************)
(* Properties of the parser, stated on the words of the lines.             *)
(***************************************************************************)
\* The words of a line, blanks left out
Words(line) == SelectSeq(line, LAMBDA t : t # " ")

\* The line is read as key=value: not blank, not a comment, with an '='
Interpreted(line) ==
    /\ Words(line) # <<>>
    /\ Words(line)[1] # "#"
    /\ \E j \in 1..Len(line) : line[j] = "="

FirstEquals(line) ==
    CHOOSE j \in 1..Len(line) : line[j] = "=" /\ \A k \in 1..(j - 1) : line[k] # "="

KeyOf(line) == Words(SubSeq(line, 1, FirstEquals(line) - 1))

\* The text after the first '=', without the blanks around it
ValueOf(line) ==
    LET rest == SubSeq(line, FirstEquals(line) + 1, Len(line))
        inner == { j \in 1..Len(rest) : rest[j] # " " }
    IN IF inner = {} THEN <<>>
       ELSE LET lo == CHOOSE j \in inner : \A k \in inner : j <= k
                hi == CHOOSE j \in inner : \A k \in inner : k <= j
            IN Str(SubSeq(rest, lo, hi))

HasKey(line, key) == Interpreted(line) /\ KeyOf(line) = <<key>>

\* A line MOUNT=H:C or MOUNT=H:C:O
IsMountEntry(line) ==
    /\ HasKey(line, "MOUNT")
    /\ Len(Words(line)) \in {5, 7}
    /\ Words(line)[4] = ":"
    /\ Len(Words(line)) = 7 => Words(line)[6] = ":"

HostOf(line) == Str(<< Words(line)[3] >>)

MountEntry(line) ==
    Mount(HostOf(line), Str(<< Words(line)[5] >>),
          IF Len(Words(line)) = 7 THEN Str(<< Words(line)[7] >>) ELSE <<>>)

Accepted(line) == IsMountEntry(line) /\ HostOf(line) \in ExistingPaths

FallbackMount == Mount(Str(<<"/home/me/.dev">>), Str(<<"/home/me/.dev">>), <<>>)

\* C16 (as claimed): every descriptor the parser returns has a mount; when
\* the file is absent or no MOUNT line of it is accepted, the mounts are
\* the fallback mount of the installation directory.
C16_DescriptorAlwaysHasAMount ==
    \A p \in Sessions : Parsed(p) =>
        /\ Len(config[p].mounts) >= 1
        /\ (~file.present \/ \A i \in 1..Len(file.lines) : ~Accepted(file.lines[i]))
              => config[p].mounts = << FallbackMount >>

\* C17 (as claimed): no content of the descriptor file ends a session with
\* an error: a session ends with an uncaught exception only when a docker
\* command could not be launched.
C17_MalformedEntriesAreNeverFatal ==
    \A p \in Sessions :
        pc[p] = "crashed" =>
            \E i \in 1..Len(calls[p]) : calls[p][i].out = "oserr"

\* C18: every --volume argument of an issued docker run names a host path
\* that exists; a MOUNT line whose host path does not exist contributes no
\* argument.
HostField(volume) == split(volume, ":")[1]

C18_OnlyExistingHostPathsAreMounted ==
    \A p \in Sessions :
        /\ \A i \in 1..Len(config[p].mounts) :
              config[p].mounts[i].host_path \in ExistingPaths
        /\ runCmd[p].issued =>
              \A i \in 1..Len(runCmd[p].volumes) :
                  HostField(runCmd[p].volumes[i]) \in ExistingPaths

C18_Witness ==
    \E p \in Sessions :
        /\ file = FileOf(<< MountLine("/missing", "/ws") >>)
        /\ runCmd[p].issued
        /\ runCmd[p].volumes = << Str(<<"/home/me/.dev", ":", "/home/me/.dev">>) >>

\* C19: the mounts of the descriptor are the MOUNT=H:C[:O] lines with an
\* existing H, in file order, each with host_path H, container_path C and
\* options O (empty without a third field); when there is no such line the
\* fallback mount is the only mount.
RECURSIVE AcceptedMounts(_)
AcceptedMounts(lines) ==
    IF lines = <<>> THEN <<>>
    ELSE (IF Accepted(Head(lines)) THEN << MountEntry(Head(lines)) >> ELSE <<>>)
            \o AcceptedMounts(Tail(lines))

C19_MountLineRoundTrip ==
    \A p \in Sessions : (Parsed(p) /\ file.present) =>
        config[p].mounts = IF AcceptedMounts(file.lines) # <<>>
                           THEN AcceptedMounts(file.lines)
                           ELSE << FallbackMount >>

C19_Witness ==
    /\ Parsed("s1")
    /\ Len(file.lines) = 2
    /\ IsMountEntry(file.lines[1]) /\ ~Accepted(file.lines[1])
    /\ config["s1"].mounts
          = << Mount(Str(<<"/data">>), Str(<<"/data">>), Str(<<"ro">>)) >>

\* C20: only the lines read as key=value count, split at the first '=':
\* the ports are the PORT values that hold ':', in file order; the default
\* directory is the value of the last DEFAULT_WORKDIR line, /home/me without
\* one; every other key but MOUNT is an env_vars entry with the value of its
\* last line; every mount but the fallback comes from a MOUNT line; and the
\* lines that are skipped change nothing.
RECURSIVE PortValues(_)
PortValues(lines) ==
    IF lines = <<>> THEN <<>>
    ELSE (IF HasKey(Head(lines), "PORT") /\ contains(ValueOf(Head(lines)), ":")
          THEN << ValueOf(Head(lines)) >> ELSE <<>>)
            \o PortValues(Tail(lines))

LastWith(lines, key) ==
    CHOOSE i \in 1..Len(lines) :
        /\ HasKey(lines[i], key)
        /\ \A j \in (i + 1)..Len(lines) : ~HasKey(lines[j], key)

Reserved == { <<"MOUNT">>, <<"PORT">>, <<"DEFAULT_WORKDIR">> }

IsEnvLine(line) == Interpreted(line) /\ KeyOf(line) \notin Reserved

C20_OnlyKeyValueLinesAreInterpreted ==
    \A p \in Sessions : (Parsed(p) /\ file.present) =>
        LET ls == file.lines
            d == config[p]
        IN /\ d.ports = PortValues(ls)
           /\ d.default_workdir =
                 IF \E i \in 1..Len(ls) : HasKey(ls[i], "DEFAULT_WORKDIR")
                 THEN ValueOf(ls[LastWith(ls, "DEFAULT_WORKDIR")])
                 ELSE Str(<<"/home/me">>)
           /\ \A i \in 1..Len(ls) : IsEnvLine(ls[i]) =>
                 \E e \in 1..Len(d.env_vars) :
                     /\ d.env_vars[e][1] = Str(KeyOf(ls[i]))
                     /\ d.env_vars[e][2] = ValueOf(ls[LastWith(ls, KeyOf(ls[i])[1])])
           /\ \A e \in 1..Len(d.env_vars) :
                 \E i \in 1..Len(ls) :
                     IsEnvLine(ls[i]) /\ d.env_vars[e][1] = Str(KeyOf(ls[i]))
           /\ \A m \in 1..Len(d.mounts) :
                 \/ d.mounts[m] = FallbackMount
                 \/ \E i \in 1..Len(ls) : HasKey(ls[i], "MOUNT")
           /\ d = parse_dev_env_file(FileOf(SelectSeq(ls, Interpreted)))

C20_Witness ==
    /\ Parsed("s1")
    /\ Len(file.lines) = 3
    /\ ~Interpreted(file.lines[1])
    /\ config["s1"].default_workdir = Str(<<"/srv">>)
    /\ config["s1"].env_vars = << << Str(<<"OPTS">>), Str(<<"k", "=", "v">>) >> >>

\* C21: the ports of the descriptor are the PORT values of the file as
\* written, in file order, repeated values included; and a docker run is
\* issued after one decision on each of them, in that order, each taken on
\* the occupation of the entry's own host port.
C21_OneDecisionPerPortEntry ==
    \A p \in Sessions :
        /\ (Parsed(p) /\ file.present) => config[p].ports = PortValues(file.lines)
        /\ runCmd[p].issued =>
              /\ Len(decided[p]) = Len(config[p].ports)
              /\ \A i \in 1..Len(decided[p]) :
                    /\ decided[p][i].entry = config[p].ports[i]
                    /\ decided[p][i].publish = HostPortFree(config[p].ports[i])

C21_Witness ==
    \E p \in Sessions :
        /\ runCmd[p].issued
        /\ config[p].ports = << Str(<<"8080", ":", "80">>), Str(<<"8080", ":", "80">>) >>
        /\ Len(decided[p]) = 2
        /\ decided[p][1].publish /\ decided[p][2].publish

\* C25: the calls of one session come in the order of its path: every
\* removal of a port binding before docker start, docker start or docker
\* run before the initialization exec, the initialization exec before the
\* interactive exec; a session that found the container stopped or absent
\* issues the interactive exec only after its docker start or docker run
\* succeeded and after the initialization exec.
Rank(op) ==
    CASE op \in {"ps", "ps_a"}  -> 0
      [] op = "update"          -> 1
      [] op \in {"start", "run"} -> 2
      [] op = "exec_init"       -> 3
      [] op = "exec_it"         -> 4

Before(cs, a, b) ==
    \E i, j \in 1..Len(cs) : i < j /\ cs[i].op = a /\ cs[j].op = b

C25_CallsFollowThePathOrder ==
    \A p \in Sessions :
        /\ \A i, j \in 1..Len(calls[p]) :
              i < j => Rank(calls[p][i].op) <= Rank(calls[p][j].op)
        /\ \A i, j \in 1..Len(calls[p]) :
              (i # j /\ calls[p][i].op = calls[p][j].op) => calls[p][i].op = "update"
        /\ Issued(calls[p], "exec_init") =>
              \/ entry[p] = "Stopped" /\ OutcomeOf(calls[p], "start") = "ok"
              \/ entry[p] = "Absent" /\ OutcomeOf(calls[p], "run") = "ok"
        /\ (Issued(calls[p], "exec_it") /\ entry[p] # "Running") =>
              Issued(calls[p], "exec_init")

C25_Witness ==
    \E p \in Sessions :
        /\ entry[p] = "Stopped"
        /\ Before(calls[p], "update", "start")
        /\ Before(calls[p], "start", "exec_init")
        /\ Before(calls[p], "exec_init", "exec_it")
        /\ pc[p] = "in_shell"

\* C26 (as claimed): whatever the interleaving of the grep and the append
\* of two sessions' initialization scripts, the sourcing line is in
\* /home/me/.bashrc at most once.
C26_ConcurrentInitAddsTheLineOnce ==
    (\A p \in Sessions : entry[p] = "Stopped") => bashrc <= 1

\* C29 (as claimed): when cwd is the host path of the first mount it lies
\* under, the result is that mount's container path and nothing more.
C29_MountRootMapsToContainerPath ==
    \A p \in Sessions :
        ( /\ Parsed(p)
          /\ MountsOver(p) # {}
          /\ \A i \in 1..Len(config[p].mounts) :
                ~SiblingOf(cwd, config[p].mounts[i].host_path)
          /\ components(cwd) = components(config[p].mounts[FirstOver(p)].host_path) )
        => work_dir[p] = config[p].mounts[FirstOver(p)].container_path

\* The installation root of a session: the directory DEV_DIR names, links
\* followed.
install_root == realpath(dev_dir_of(cwd, links), links)

Named(p) == container_name[p] # <<>>

HexDigits == {"0", "1", "2", "3", "4", "5", "6", "7", "8", "9",
              "a", "b", "c", "d", "e", "f"}

\* C22 (as claimed): a session started in the installation root, reached
\* through a link, with a trailing separator or by its own name, is named
\* dev-main.
C22_InstallRootIsNamedDevMain ==
    \A p \in Sessions :
        (Named(p) /\ cwd = install_root) => container_name[p] = Str(<<"dev-main">>)

\* C23: the name of a session is fixed by the current directory alone: it
\* is dev-main in the installation root and dev- with eight hexadecimal
\* digits of the digest of the directory elsewhere, whatever the state of
\* the container and whatever ran before.
C23_NameIsAFunctionOfTheDirectory ==
    \A p \in Sessions :
        Named(p) =>
            IF cwd = DEV_DIR
            THEN container_name[p] = Str(<<"dev-main">>)
            ELSE /\ Len(container_name[p]) = 12
                 /\ SubSeq(container_name[p], 1, 4) = Str(<<"dev-">>)
                 /\ SubSeq(container_name[p], 5, 12) = Md5Prefix[cwd]
                 /\ \A i \in 5..12 : container_name[p][i] \in HexDigits

\* A second invocation in a project directory names the container while
\* the first one's container runs.
C23_Witness ==
    /\ cwd # DEV_DIR
    /\ Named("s1")
    /\ cstate = "Running"
    /\ pc["s1"] = "q_running"
    /\ initRuns > 0

\* C30: a session started outside the installation root is never named
\* dev-main.
C30_ProjectIsNeverNamedDevMain ==
    \A p \in Sessions :
        (Named(p) /\ cwd # install_root) => container_name[p] # Str(<<"dev-main">>)

\* A project session on a host whose installation directory is a link.
C30_Witness ==
    /\ Named("s1")
    /\ links # NoLink
    /\ cwd = Str(<<"/home/me/dev/proj">>)
    /\ container_name["s1"] = Str(<<"dev-">>) \o Md5Prefix[cwd]

(***************************************************************************)
(* Properties of the other commands.                                       *)
(***************************************************************************)
OpsOf(cs) == [i \in 1..Len(cs) |-> cs[i].op]

PruneOps == {"p_container", "p_network", "p_image", "p_volume"}

\* C24: a prune --all whose prompt was answered with anything but y or Y
\* has issued no docker prune, a stop whose menu was answered with q has
\* issued no docker stop, and both have returned with status 0.
C24_DecliningIsASuccessfulNoOp ==
    \A p \in Sessions :
        /\ ( /\ args[p].command = "prune"
             /\ args[p].all
             /\ answer[p] \notin {NoAnswer, <<"y">>, <<"Y">>} )
           => /\ pc[p] = "done"
              /\ exitCode[p] = 0
              /\ Ops(calls[p]) \cap PruneOps = {}
        /\ (args[p].command = "stop" /\ answer[p] = <<"q">>)
           => /\ pc[p] = "done"
              /\ exitCode[p] = 0
              /\ ~Issued(calls[p], "stop")

\* q typed at a menu of three running containers.
C24_Witness ==
    /\ args["s1"].command = "stop"
    /\ Len(containers["s1"]) = 3
    /\ answer["s1"] = <<"q">>
    /\ pc["s1"] = "done"
    /\ cstate = "Running"
    /\ others = OtherContainers

\* C27: a delete that found the container running issues docker rm only
\* after a docker stop that succeeded, one that found it stopped issues no
\* stop, one that found none issues neither; when delete returns, the
\* container is gone.
C27_DeleteStopsThenRemoves ==
    \A p \in Sessions :
        args[p].command = "delete" =>
            /\ (entry[p] = "Running" /\ Issued(calls[p], "rm"))
                  => /\ Before(calls[p], "stop", "rm")
                     /\ OutcomeOf(calls[p], "stop") = "ok"
            /\ entry[p] = "Stopped" => ~Issued(calls[p], "stop")
            /\ entry[p] = "Absent"
                  => ~Issued(calls[p], "stop") /\ ~Issued(calls[p], "rm")
            /\ pc[p] = "done"
                  => /\ cstate = "Absent"
                     /\ entry[p] # "Absent" => OutcomeOf(calls[p], "rm") = "ok"

C27_Witness ==
    /\ args["s1"].command = "delete"
    /\ entry["s1"] = "Running"
    /\ OpsOf(calls["s1"]) = <<"ps_a", "ps", "stop", "rm">>
    /\ pc["s1"] = "done"
    /\ cstate = "Absent"

\* C28: an exec is issued only for a container the process saw running or
\* started itself: after a start that succeeded when the container was
\* stopped, without a start when it ran, and not at all, nor a start, when
\* there was none.
C28_ExecOnlyInARunningContainer ==
    \A p \in Sessions :
        args[p].command = "exec" =>
            /\ Issued(calls[p], "exec")
                  => \/ obs[p].running = "yes"
                     \/ OutcomeOf(calls[p], "start") = "ok"
            /\ (entry[p] = "Stopped" /\ Issued(calls[p], "exec"))
                  => Before(calls[p], "start", "exec")
            /\ (entry[p] = "Stopped" /\ pc[p] \in Terminal)
                  => Issued(calls[p], "start")
            /\ entry[p] = "Running" => ~Issued(calls[p], "start")
            /\ (entry[p] = "Running" /\ pc[p] \in Terminal)
                  => Issued(calls[p], "exec")
            /\ entry[p] = "Absent"
                  => ~Issued(calls[p], "start") /\ ~Issued(calls[p], "exec")

C28_Witness ==
    /\ args["s1"].command = "exec"
    /\ entry["s1"] = "Stopped"
    /\ OpsOf(calls["s1"]) = <<"ps", "ps_a", "start", "exec">>
    /\ pc["s1"] = "done"
    /\ cstate = "Running"
====
